---- MODULE Spec2Model ----
(***************************************************************************)
(* A model of hmf.transfer.Transfer: the settable inputs, the lazily       *)
(* computed and cached derived quantities, and update().                   *)
(*                                                                         *)
(* Numbers.  Log-wavenumbers are integers in units of 0.1; cosmological    *)
(* parameters are integers in units of 0.01 (sigma_8 = 80 is 0.80).        *)
(* Derived quantities are symbolic terms: a tuple <<"f", a, b>> is the     *)
(* value f(a, b) of real arithmetic, so two values are equal exactly when  *)
(* they were computed by the same functions from the same inputs.          *)
(* A point of a log-space array is [t, k3, c], the value                   *)
(*      t + k3 * lnk + c * ln(2 pi^2),                                     *)
(* so that the additions of 3*lnk and ln(2 pi^2) in delta_k and            *)
(* nonlinear_power are computed, not assumed to cancel.                    *)
(***************************************************************************)
EXTENDS Integers, Sequences, FiniteSets, TLC

(***************************************************************************)
(* Bounds of the model.                                                    *)
(***************************************************************************)
\* the number of reads and of keyword arguments of update() in one behaviour
MaxOps == 3
\* the number of keyword arguments of one update() call
MaxArgs == 2
\* the number of points of a table given to _check_low_k
MaxTable == 7
\* the spacing of lnk in such a table, and the steps of lnT from one point to
\* the next, in units of 0.0001
TableStep == 200

TableSlopes == {-3, -2, -1, 0, 2}

(***************************************************************************)
(* Program constants.                                                      *)
(***************************************************************************)
\* ln(0.005) = -5.2983: for an integer x of tenths, exp(x/10) > 0.005 iff
\* x > -53
LnKCut == -53

\* the value None of wdm_mass, an integer no mass takes
None == -999

\* the float nan, which float(val) returns for val = "nan" or float("nan")
NaN == -998

\* a < b, a <= b and a != b of floats: every comparison with nan is False,
\* and nan != x is True
Less(a, b) == a # NaN /\ b # NaN /\ a < b

LessEq(a, b) == a # NaN /\ b # NaN /\ a <= b

NotEqual(a, b) == a = NaN \/ b = NaN \/ a # b

\* Transfer._cp
cp_names ==
    {"sigma_8", "n", "w", "cs2_lam", "t_cmb", "y_he", "N_nu", "omegan", "H0",
     "h", "omegab", "omegac", "omegav", "omegab_h2", "omegac_h2",
     "force_flat", "default"}

\* the attributes defined with set_property
set_properties == {"lnk_min", "lnk_max", "dlnk", "z", "wdm_mass", "transfer_fit"}

\* the attributes defined with cached_property
Quantities ==
    {"lnk", "_unnormalised_lnT", "_unnormalised_lnP", "_lnP_cdm_0", "_lnT_cdm",
     "_lnP_0", "growth", "power", "transfer", "delta_k", "nonlinear_power",
     "nonlinear_delta_k"}

(***************************************************************************)
(* The inputs the model draws.                                             *)
(***************************************************************************)
\* the cosmological parameters update() is called with, and their values
CpDomain(k) ==
    CASE k = "sigma_8"   -> {80, 110}
      [] k = "n"         -> {96, 100}
      [] k = "w"         -> {-100, -90}
      [] k = "omegav"    -> {68, 70}
      [] k = "omegab"    -> {4, 5}
      [] k = "omegab_h2" -> {22, 23}
      [] k = "H0"        -> {67, 70}

\* the solver options update() is called with
CambDomain(k) ==
    CASE k = "AccuracyBoost" -> {1, 2}
      [] k = "ThreadNum"     -> {0, 4}

\* what the search of _get_spec meets: no radius with lnsig1 < 0, or the
\* first radius
Crossings == {0, 1}

\* how many evaluations of sig_of_r.derivatives fail, counted from the first
DevFails == {0, 1, 2}

\* the outcomes of _get_spec's numerics told apart: with lnsig1 < 0 at the
\* first radius the derivatives are never evaluated
Outcomes == {o \in Crossings \X DevFails : o[1] = 1 => o[2] = 0}

\* the values the settable attributes are given (valid and invalid)
AttrDomain(k) ==
    CASE k = "lnk_min"      -> {-60, -55}
      [] k = "lnk_max"      -> {-45, -40}
      [] k = "dlnk"         -> {5, 10}
      [] k = "z"            -> {-1, 0, 1, NaN}
      [] k = "wdm_mass"     -> {None, 0, 1}
      [] k = "transfer_fit" -> {"CAMB", "EH", "bbks", "nofile"}

VARIABLES
    HAVE_PYCAMB,    \* whether pycamb was imported
    cpdict,         \* self._cpdict
    cosmo,          \* self.cosmo
    camb_options,   \* self._camb_options
    attrs,          \* the set_property attributes self._Transfer__<name>
    cache,          \* the cached_property attributes that are set
    last,           \* the last operation: its kind, what was read or the
                    \* keyword arguments, what it changed, whether it raised
    nops,           \* the number of operations so far
    dev_fails,      \* _get_spec: the number of leading evaluations of
                    \* sig_of_r.derivatives that raise
    crossing,       \* _get_spec, the search over the radii 1e-4 ... 1e3: the
                    \* number of the first radius with lnsig1 < 0 (1 for
                    \* the first), 0 when there is none
    low_k_in,       \* the table (lnk, lnT) that _check_low_k is given
    low_k           \* what _check_low_k returned, <<>> before the call

vars ==
    <<HAVE_PYCAMB, cpdict, cosmo, camb_options, attrs, cache, last, nops,
      crossing, dev_fails, low_k_in, low_k>>

(***************************************************************************)
(* Functions as dictionaries.                                              *)
(***************************************************************************)
Without(f, S) == [x \in DOMAIN f \ S |-> f[x]]

Put(f, k, v) == [x \in DOMAIN f \cup {k} |-> IF x = k THEN v ELSE f[x]]

(***************************************************************************)
(* hmf.cosmo.Cosmology: the scalars the Transfer class reads.              *)
(***************************************************************************)
Cosmology(d) ==
    LET h      == <<"H0/100", d["H0"]>>
        omegab == IF "omegab" \in DOMAIN d
                  THEN <<"omegab", d["omegab"]>>
                  ELSE <<"omegab_h2/h**2", d["omegab_h2"], h>>
        omegac == IF "omegac" \in DOMAIN d
                  THEN <<"omegac", d["omegac"]>>
                  ELSE <<"omegac_h2/h**2", d["omegac_h2"], h>>
        omegam == <<"omegam", omegab, omegac, d["omegan"]>>
    IN  [sigma_8   |-> d["sigma_8"],
         n         |-> d["n"],
         w         |-> d["w"],
         omegav    |-> d["omegav"],
         omegan    |-> d["omegan"],
         h         |-> h,
         omegab    |-> omegab,
         omegac    |-> omegac,
         omegam    |-> omegam,
         mean_dens |-> <<"mean_dens", omegam>>]

(***************************************************************************)
(* _cache.cached_property and _cache.set_property.                         *)
(***************************************************************************)
\* the quantities the method of q reads, self.<name>
depends(q) ==
    CASE q = "lnk"               -> {}
      [] q = "_unnormalised_lnT" -> {"lnk"}
      [] q = "_unnormalised_lnP" -> {"lnk", "_unnormalised_lnT"}
      [] q = "_lnP_cdm_0"        -> {"_unnormalised_lnP", "lnk"}
      [] q = "_lnT_cdm"          -> {"_unnormalised_lnT", "lnk"}
      [] q = "_lnP_0"            -> {"_lnP_cdm_0"}
      [] q = "growth"            -> {}
      [] q = "power"             -> {"growth", "_lnP_0"}
      [] q = "transfer"          -> {"_lnT_cdm", "lnk"}
      [] q = "delta_k"           -> {"lnk", "power"}
      [] q = "nonlinear_power"   -> {"lnk", "nonlinear_delta_k"}
      [] q = "nonlinear_delta_k" -> {"lnk", "delta_k"}

\* a plausible slip: the decorator of power names _lnP_0, which it is
\* computed from, next to delta_k
children_PowerNamesParent(q) ==
    CASE q = "lnk"               -> {"_unnormalised_lnT"}
      [] q = "_unnormalised_lnT" -> {"_unnormalised_lnP", "_lnT_cdm"}
      [] q = "_unnormalised_lnP" -> {"_lnP_cdm_0"}
      [] q = "_lnP_cdm_0"        -> {"_lnP_0"}
      [] q = "_lnT_cdm"          -> {"transfer"}
      [] q = "_lnP_0"            -> {"power"}
      [] q = "growth"            -> {"power"}
      [] q = "power"             -> {"delta_k", "_lnP_0"}
      [] q = "transfer"          -> {}
      [] q = "delta_k"           -> {"nonlinear_delta_k"}
      [] q = "nonlinear_power"   -> {}
      [] q = "nonlinear_delta_k" -> {"nonlinear_power"}

\* a plausible slip: the decorator of growth names no child
children_GrowthNoChild(q) ==
    CASE q = "lnk"               -> {"_unnormalised_lnT"}
      [] q = "_unnormalised_lnT" -> {"_unnormalised_lnP", "_lnT_cdm"}
      [] q = "_unnormalised_lnP" -> {"_lnP_cdm_0"}
      [] q = "_lnP_cdm_0"        -> {"_lnP_0"}
      [] q = "_lnT_cdm"          -> {"transfer"}
      [] q = "_lnP_0"            -> {"power"}
      [] q = "growth"            -> {}
      [] q = "power"             -> {"delta_k"}
      [] q = "transfer"          -> {}
      [] q = "delta_k"           -> {"nonlinear_delta_k"}
      [] q = "nonlinear_power"   -> {}
      [] q = "nonlinear_delta_k" -> {"nonlinear_power"}

\* the children named by the decorator of every cached_property
children(q) ==
    CASE q = "lnk"               -> {"_unnormalised_lnT"}
      [] q = "_unnormalised_lnT" -> {"_unnormalised_lnP", "_lnT_cdm"}
      [] q = "_unnormalised_lnP" -> {"_lnP_cdm_0"}
      [] q = "_lnP_cdm_0"        -> {"_lnP_0"}
      [] q = "_lnT_cdm"          -> {"transfer"}
      [] q = "_lnP_0"            -> {"power"}
      [] q = "growth"            -> {"power"}
      [] q = "power"             -> {"delta_k"}
      [] q = "transfer"          -> {}
      [] q = "delta_k"           -> {"nonlinear_delta_k"}
      [] q = "nonlinear_power"   -> {}
      [] q = "nonlinear_delta_k" -> {"nonlinear_power"}

\* a plausible slip: the decorator of z names no child
set_children_ZNoChild(k) ==
    CASE k = "lnk_min"      -> {"lnk"}
      [] k = "lnk_max"      -> {"lnk"}
      [] k = "dlnk"         -> {"lnk"}
      [] k = "z"            -> {}
      [] k = "wdm_mass"     -> {"_lnP_0", "transfer"}
      [] k = "transfer_fit" -> {"_unnormalised_lnT"}

\* the children named by the decorator of every set_property
set_children(k) ==
    CASE k = "lnk_min"      -> {"lnk"}
      [] k = "lnk_max"      -> {"lnk"}
      [] k = "dlnk"         -> {"lnk"}
      [] k = "z"            -> {"growth"}
      [] k = "wdm_mass"     -> {"_lnP_0", "transfer"}
      [] k = "transfer_fit" -> {"_unnormalised_lnT"}

\* what the deleter of q removes: q and, through their deleters, its children
RECURSIVE Cascade(_)
Cascade(q) == {q} \cup UNION {Cascade(c) : c \in children(q)}

\* del self.<q>
DelProp(c, q) == Without(c, Cascade(q))

\* del self.<q> for every q of S
DelAll(c, S) == Without(c, UNION {Cascade(q) : q \in S})

\* the getter of a cached_property: the stored value when there is one
Cached(self, q) == q \in DOMAIN self.cache

\* the getter of a cached_property: store the value that was computed; with
\* an exception on its way to the caller nothing is computed or stored
Store(self, q, v) ==
    IF self.exc # "" THEN self
    ELSE [self EXCEPT !.cache = Put(self.cache, q, v), !.log = Append(@, q)]

\* raise e, unless an exception is on its way already
Raise(self, e) == IF self.exc # "" THEN self ELSE [self EXCEPT !.exc = e]

(***************************************************************************)
(* Values.                                                                 *)
(***************************************************************************)
\* a point of a log-space array: t + a + c * ln(2 pi^2), a in tenths
Pt(t) == [t |-> t, a |-> 0, c |-> 0]

\* np.exp of a point, np.log of a linear-space value
Exp(p) == [kind |-> "exp", of |-> p]

Log(x) == IF x.kind = "exp" THEN x.of ELSE Pt(<<"log", x.of>>)

\* np.arange(start, stop, step), step # 0
\* a plausible slip: the end point is part of the range
arange_Inclusive(start, stop, step) ==
    LET n == IF step > 0
             THEN (IF stop >= start THEN (stop - start) \div step + 1 ELSE 0)
             ELSE (IF start >= stop THEN (start - stop) \div (0 - step) + 1 ELSE 0)
    IN  [i \in 1..n |-> start + (i - 1) * step]

arange(start, stop, step) ==
    LET n == IF step > 0
             THEN (IF stop > start THEN (stop - start + step - 1) \div step ELSE 0)
             ELSE (IF start > stop THEN (start - stop - step - 1) \div (0 - step) ELSE 0)
    IN  [i \in 1..n |-> start + (i - 1) * step]

(***************************************************************************)
(* hmf.tools, cosmolopy and pycamb: functions of their arguments.          *)
(***************************************************************************)
\* Cosmology.cosmolopy_dict()
cosmolopy_dict(c) ==
    [omega_M_0 |-> c.omegam, omega_b_0 |-> c.omegab, omega_lambda_0 |-> c.omegav,
     omega_n_0 |-> c.omegan, h |-> c.h]

\* Cosmology.pycamb_dict()
pycamb_dict(c) ==
    [w_lam |-> c.w, omegab |-> c.omegab, omegac |-> c.omegac, omegav |-> c.omegav,
     omegan |-> c.omegan, H0 |-> c.h]

\* tools.normalize(norm_sigma_8, unn_power, lnk, mean_dens): the normalised
\* array and the normalisation
normalize(sigma_8, unn, k, mean_dens) ==
    LET norm == <<"normalisation", sigma_8, mean_dens, k, unn>>
    IN  <<[i \in DOMAIN unn |-> Pt(<<"normalised", unn[i], norm>>)], norm>>

\* numpy: operands of lengths n and m can be combined entry by entry
broadcast(n, m) == n = m \/ n = 1 \/ m = 1

\* tools.wdm_transfer(m_x, power_cdm, lnk, h, omegac): the suppression at
\* every lnk, applied to power_cdm entry by entry
wdm_transfer(m_x, power_cdm, k, h, omegac) ==
    LET n == Len(power_cdm)
        m == Len(k)
    IN  [i \in 1..(IF n > m THEN n ELSE m) |->
            Pt(<<"wdm_transfer", m_x, power_cdm[IF n = 1 THEN 1 ELSE i],
                 k[IF m = 1 THEN 1 ELSE i], h, omegac>>)]

\* tools.growth_factor(z, cosmo): a function of z, omegam and omegav
growth_factor(z, c) == <<"growth_factor", z, c.omegam, c.omegav>>

(***************************************************************************)
(* The derived properties.  Each operator is the getter: it takes the      *)
(* object and gives the object after the read, with the property and every *)
(* property it read stored.                                                *)
(***************************************************************************)
lnk(self) ==
    IF Cached(self, "lnk") THEN self
    ELSE Store(self, "lnk",
               arange(self.attrs.lnk_min, self.attrs.lnk_max, self.attrs.dlnk))

Abs(x) == IF x < 0 THEN 0 - x ELSE x

\* abs((lnT[i + 1] - lnT[i]) / (lnk[i + 1] - lnk[i])) < 0.01 for the python
\* index i, which is the point i + 1 of the sequence
slope_below(lnk_, lnT, i) ==
    100 * Abs(lnT[i + 2] - lnT[i + 1]) < Abs(lnk_[i + 2] - lnk_[i + 1])

\* a[start:-1]: from the python index start up to, not including, the last
slice_to_last(a, start) == SubSeq(a, start + 1, Len(a) - 1)

\* a plausible slip: no "break", start is the last index that qualifies
check_low_k_NoBreak(lnk_, lnT) ==
    LET hits  == {i \in 0..(Len(lnk_) - 2) : slope_below(lnk_, lnT, i)}
        start == IF hits = {} THEN 0
                 ELSE CHOOSE i \in hits : \A j \in hits : j <= i
    IN  <<slice_to_last(lnk_, start), slice_to_last(lnT, start)>>

\* _check_low_k(lnk, lnT)
check_low_k(lnk_, lnT) ==
    LET hits  == {i \in 0..(Len(lnk_) - 2) : slope_below(lnk_, lnT, i)}
        start == IF hits = {} THEN 0
                 ELSE CHOOSE i \in hits : \A j \in hits : i <= j
    IN  <<slice_to_last(lnk_, start), slice_to_last(lnT, start)>>

\* the table (lnk, lnT) after the low-k filter, splined onto k
spline_low_k(table, k) ==
    [i \in DOMAIN k |-> Pt(<<"spline", <<"_check_low_k", table>>, k[i]>>)]

\* the files np.genfromtxt finds and reads; a name outside makes it raise
ReadableFiles == {"transfer.dat"}

from_file_raises(self) == self.attrs.transfer_fit \notin ReadableFiles

from_file(self, k) == spline_low_k(<<"genfromtxt", self.attrs.transfer_fit>>, k)

CAMB(self, k) ==
    spline_low_k(<<"pycamb.transfers", pycamb_dict(self.cosmo),
                   Without(self.camb_options, {"ThreadNum"})>>, k)

EH(self, k) ==
    LET cd == cosmolopy_dict(self.cosmo)
    IN  [i \in DOMAIN k |->
            Pt(<<"transfer_function_EH", k[i], self.cosmo.h,
                 cd.omega_M_0, cd.omega_b_0, cd.omega_n_0, cd.h>>)]

bbks(self, k) ==
    [i \in DOMAIN k |->
        Pt(<<"bbks", k[i], self.cosmo.omegam, self.cosmo.h, self.cosmo.omegab>>)]

bond_efs(self, k) ==
    [i \in DOMAIN k |-> Pt(<<"bond_efs", k[i], self.cosmo.omegam, self.cosmo.h>>)]

\* In the bodies below, s is the object after the reads the body makes.
\* the methods getattr(self, "_" + transfer_fit) finds
fits == {"CAMB", "EH", "bbks", "bond_efs"}

unnormalised_lnT_body(s) ==
    LET k   == s.cache["lnk"]
        fit == s.attrs.transfer_fit
    IN  IF fit \notin fits /\ from_file_raises(s)
        THEN Raise(s, "IOError")
        ELSE Store(s, "_unnormalised_lnT",
                   CASE fit = "CAMB"     -> CAMB(s, k)
                     [] fit = "EH"       -> EH(s, k)
                     [] fit = "bbks"     -> bbks(s, k)
                     [] fit = "bond_efs" -> bond_efs(s, k)
                     [] OTHER            -> from_file(s, k))

unnormalised_lnT(self) ==
    IF Cached(self, "_unnormalised_lnT") THEN self
    ELSE unnormalised_lnT_body(lnk(self))

unnormalised_lnP_body(s) ==
    LET k == s.cache["lnk"]
        T == s.cache["_unnormalised_lnT"]
    IN  Store(s, "_unnormalised_lnP",
              [i \in DOMAIN k |-> Pt(<<"n*lnk+2*lnT", s.cosmo.n, k[i], T[i]>>)])

\* a plausible slip: the getter computes _unnormalised_lnT without asking
\* for the stored value
unnormalised_lnP_Recomputes(self) ==
    IF Cached(self, "_unnormalised_lnP") THEN self
    ELSE unnormalised_lnP_body(unnormalised_lnT_body(lnk(self)))

unnormalised_lnP(self) ==
    IF Cached(self, "_unnormalised_lnP") THEN self
    ELSE unnormalised_lnP_body(unnormalised_lnT(lnk(self)))

lnP_cdm_0_body(s) ==
    Store(s, "_lnP_cdm_0",
          normalize(s.cosmo.sigma_8, s.cache["_unnormalised_lnP"],
                    s.cache["lnk"], s.cosmo.mean_dens)[1])

lnP_cdm_0(self) ==
    IF Cached(self, "_lnP_cdm_0") THEN self
    ELSE lnP_cdm_0_body(lnk(unnormalised_lnP(self)))

lnT_cdm_body(s) ==
    Store(s, "_lnT_cdm",
          normalize(s.cosmo.sigma_8, s.cache["_unnormalised_lnT"],
                    s.cache["lnk"], s.cosmo.mean_dens))

lnT_cdm(self) ==
    IF Cached(self, "_lnT_cdm") THEN self
    ELSE lnT_cdm_body(lnk(unnormalised_lnT(self)))

lnP_0_body(s) ==
    IF s.exc # "" THEN s
    ELSE IF s.attrs.wdm_mass # None
         THEN IF broadcast(Len(s.cache["_lnP_cdm_0"]), Len(s.cache["lnk"]))
              THEN Store(s, "_lnP_0",
                         wdm_transfer(s.attrs.wdm_mass, s.cache["_lnP_cdm_0"],
                                      s.cache["lnk"], s.cosmo.h, s.cosmo.omegac))
              ELSE Raise(s, "ValueError")
         ELSE Store(s, "_lnP_0", s.cache["_lnP_cdm_0"])

lnP_0(self) ==
    IF Cached(self, "_lnP_0") THEN self
    ELSE lnP_0_body(lnP_cdm_0(self))

\* a plausible slip: "z >= 0" for "z > 0", the integrator also at z = 0
growth_NoShortCircuit(self) ==
    IF Cached(self, "growth") THEN self
    ELSE IF LessEq(0, self.attrs.z)
         THEN Store(self, "growth", growth_factor(self.attrs.z, self.cosmo))
         ELSE Store(self, "growth", <<"1.0">>)

growth(self) ==
    IF Cached(self, "growth") THEN self
    ELSE IF Less(0, self.attrs.z)
         THEN Store(self, "growth", growth_factor(self.attrs.z, self.cosmo))
         ELSE Store(self, "growth", <<"1.0">>)

power_body(s) ==
    LET g  == s.cache["growth"]
        P0 == s.cache["_lnP_0"]
    IN  Store(s, "power",
              [i \in DOMAIN P0 |-> Pt(<<"2*log(growth)+lnP_0", g, P0[i]>>)])

power(self) ==
    IF Cached(self, "power") THEN self
    ELSE power_body(lnP_0(growth(self)))

\* self._lnT_cdm is the pair that normalize returns
transfer_body(s) ==
    IF s.exc # "" THEN s
    ELSE IF broadcast(Len(s.cache["_lnT_cdm"]), Len(s.cache["lnk"]))
         THEN Store(s, "transfer",
                    wdm_transfer(s.attrs.wdm_mass, s.cache["_lnT_cdm"],
                                 s.cache["lnk"], s.cosmo.h, s.cosmo.omegac))
         ELSE Raise(s, "ValueError")

transfer(self) ==
    IF Cached(self, "transfer") THEN self
    ELSE transfer_body(lnk(lnT_cdm(self)))

delta_k_body(s) ==
    LET k == s.cache["lnk"]
        P == s.cache["power"]
    IN  Store(s, "delta_k",
              [i \in DOMAIN k |-> [P[i] EXCEPT !.a = @ + 3 * k[i], !.c = @ - 1]])

delta_k(self) ==
    IF Cached(self, "delta_k") THEN self
    ELSE delta_k_body(power(lnk(self)))

\* sigma_8 * 100 within (0.6, 1.0): the search over r is not needed
usual_range(s) == s.cosmo.sigma_8 < 100 /\ s.cosmo.sigma_8 > 60

\* _get_spec raises: lnsig1 < 0 at the first radius, where lnsig_old has no
\* value yet
get_spec_raises(s) == ~usual_range(s) /\ crossing = 1

\* sig_of_r.derivatives, evaluated for the n-th time, raises
derivatives_fails(n) == n <= dev_fails

\* a plausible slip: the second evaluation is inside a try as well and its
\* failure is swallowed
get_spec_derivatives_Swallow(lnr) ==
    LET narrow == <<"linspace", "log(0.2/rknl)", "log(5/rknl)">>
    IN  IF ~derivatives_fails(1) THEN [evals |-> 1, lnr |-> lnr, exc |-> ""]
        ELSE [evals |-> 2, lnr |-> narrow, exc |-> ""]

\* dev1, dev2: the derivatives of the spline over lnr; when the evaluation
\* raises, the spline is rebuilt over the narrower range around 1/rknl and
\* evaluated once more, outside the try.  evals counts the evaluations, lnr
\* is the range of the spline that was evaluated last
get_spec_derivatives(lnr) ==
    LET narrow == <<"linspace", "log(0.2/rknl)", "log(5/rknl)">>
    IN  IF ~derivatives_fails(1) THEN [evals |-> 1, lnr |-> lnr, exc |-> ""]
        ELSE IF ~derivatives_fails(2)
             THEN [evals |-> 2, lnr |-> narrow, exc |-> ""]
             ELSE [evals |-> 2, lnr |-> narrow, exc |-> "ValueError"]

\* the range of radii lnr of the first spline; in the search lnsig1 ends as
\* lnsig_old, the value at the radius before the first with lnsig1 < 0, or
\* as the value at the last radius when the loop ends without a break
get_spec_lnr(s) ==
    IF usual_range(s) THEN <<"linspace", "log(0.1)", "log(10.0)">>
    ELSE <<"linspace", "log(0.01)",
           <<"log(10*lnsig1)", IF crossing = 0 THEN 8 ELSE crossing - 1>>>>

\* the shape parameters (rknl, rneff, rncur): a function of the grid, of the
\* linear spectrum, of the range of radii lnr and of the range the
\* derivatives were taken on
get_spec(s) ==
    LET k   == s.cache["lnk"]
        dk  == [i \in DOMAIN s.cache["delta_k"] |-> Exp(s.cache["delta_k"][i])]
        lnr == get_spec_lnr(s)
    IN  <<"_get_spec", lnr, get_spec_derivatives(lnr).lnr, k, dk>>

\* pnl at every point of k, from the linear plin at the same points
halofit(s, k, spec, plin) ==
    LET cd     == cosmolopy_dict(s.cosmo)
        omegam == <<"omega_M_z", s.attrs.z, cd>>
        omegav == <<"omegav/e_z**2", s.cosmo.omegav, s.attrs.z, cd>>
        fnu    == <<"omegan/omegam", s.cosmo.omegan, s.cosmo.omegam>>
    IN  [j \in DOMAIN k |->
            [kind |-> "pnl",
             of   |-> <<"pq+ph", k[j], spec, plin[j], omegam, omegav,
                        s.cosmo.w, fnu, s.cosmo.omegam>>]]

\* a plausible slip: Halofit at every point of the grid
mask_All(k) == [i \in DOMAIN k |-> TRUE]

\* mask = np.exp(self.lnk) > 0.005
mask(k) == [i \in DOMAIN k |-> k[i] > LnKCut]

\* a[mask]: the entries of a where the mask is set, in order
Masked(a, m) ==
    LET idx == SelectSeq([i \in DOMAIN a |-> i], LAMBDA i : m[i])
    IN  [j \in DOMAIN idx |-> a[idx[j]]]

\* a[mask] = b: the j-th entry of b at the j-th index where the mask is set
AssignMasked(a, m, b) ==
    [i \in DOMAIN a |->
        IF m[i] THEN b[Cardinality({j \in 1..i : m[j]})] ELSE a[i]]

\* a plausible slip: the linear values are stored before _get_spec is called
nonlinear_delta_k_body_StoresFirst(s) ==
    LET spec == get_spec(s)
        m    == mask(s.cache["lnk"])
        plin == [i \in DOMAIN s.cache["delta_k"] |-> Exp(s.cache["delta_k"][i])]
        k    == Masked(s.cache["lnk"], m)
        pnl  == halofit(s, k, spec, Masked(plin, m))
        nl   == AssignMasked(plin, m, pnl)
        dev  == get_spec_derivatives(get_spec_lnr(s))
    IN  IF s.exc # "" THEN s
        ELSE IF get_spec_raises(s)
             THEN Raise(Store(s, "nonlinear_delta_k", s.cache["delta_k"]),
                        "UnboundLocalError")
        ELSE IF dev.exc # ""
             THEN Raise([s EXCEPT !.devs = dev.evals], dev.exc)
        ELSE Store([s EXCEPT !.devs = dev.evals], "nonlinear_delta_k",
                   [i \in DOMAIN nl |-> Log(nl[i])])

nonlinear_delta_k_body(s) ==
    LET spec == get_spec(s)
        m    == mask(s.cache["lnk"])
        plin == [i \in DOMAIN s.cache["delta_k"] |-> Exp(s.cache["delta_k"][i])]
        k    == Masked(s.cache["lnk"], m)
        pnl  == halofit(s, k, spec, Masked(plin, m))
        nl   == AssignMasked(plin, m, pnl)
        dev  == get_spec_derivatives(get_spec_lnr(s))
    IN  IF s.exc # "" THEN s
        ELSE IF get_spec_raises(s) THEN Raise(s, "UnboundLocalError")
        ELSE IF dev.exc # ""
             THEN Raise([s EXCEPT !.devs = dev.evals], dev.exc)
        ELSE Store([s EXCEPT !.devs = dev.evals], "nonlinear_delta_k",
                   [i \in DOMAIN nl |-> Log(nl[i])])

nonlinear_delta_k(self) ==
    IF Cached(self, "nonlinear_delta_k") THEN self
    ELSE nonlinear_delta_k_body(delta_k(lnk(self)))

nonlinear_power_body(s) ==
    LET k == s.cache["lnk"]
        D == s.cache["nonlinear_delta_k"]
    IN  Store(s, "nonlinear_power",
              [i \in DOMAIN k |-> [D[i] EXCEPT !.a = @ - 3 * k[i], !.c = @ + 1]])

nonlinear_power(self) ==
    IF Cached(self, "nonlinear_power") THEN self
    ELSE nonlinear_power_body(nonlinear_delta_k(lnk(self)))

\* getattr(self, q) for a cached_property q
Get(self, q) ==
    CASE q = "lnk"               -> lnk(self)
      [] q = "_unnormalised_lnT" -> unnormalised_lnT(self)
      [] q = "_unnormalised_lnP" -> unnormalised_lnP(self)
      [] q = "_lnP_cdm_0"        -> lnP_cdm_0(self)
      [] q = "_lnT_cdm"          -> lnT_cdm(self)
      [] q = "_lnP_0"            -> lnP_0(self)
      [] q = "growth"            -> growth(self)
      [] q = "power"             -> power(self)
      [] q = "transfer"          -> transfer(self)
      [] q = "delta_k"           -> delta_k(self)
      [] q = "nonlinear_power"   -> nonlinear_power(self)
      [] q = "nonlinear_delta_k" -> nonlinear_delta_k(self)

(***************************************************************************)
(* The set properties.                                                     *)
(***************************************************************************)
\* a plausible slip: the setter of transfer_fit does not look at HAVE_PYCAMB
Accepts_NoSolverCheck(key, val, have_pycamb) ==
    CASE key = "z"            -> ~Less(val, 0)
      [] key = "wdm_mass"     -> val = None \/ ~LessEq(val, 0)
      [] OTHER                -> TRUE

\* the body of the setter of key: TRUE when it returns val, FALSE when it
\* raises ValueError
Accepts(key, val, have_pycamb) ==
    CASE key = "z"            -> ~Less(val, 0)
      [] key = "wdm_mass"     -> val = None \/ ~LessEq(val, 0)
      [] key = "transfer_fit" -> ~(~have_pycamb /\ val = "CAMB")
      [] OTHER                -> TRUE

\* self.<key> = val, when the setter returns: the value is stored and the
\* children are deleted
SetAttr(self, key, val) ==
    [self EXCEPT !.attrs = [@ EXCEPT ![key] = val],
                 !.cache = DelAll(@, set_children(key))]

(***************************************************************************)
(* update()                                                                *)
(***************************************************************************)
\* getattr(self, key) != val: the attributes that hold floats compare as
\* floats
Differs(key, old, val) ==
    IF key \in {"z", "wdm_mass"} THEN NotEqual(old, val) ELSE old # val

\* the loop over the keyword arguments that are no cosmological parameters,
\* taken in the order of the dictionary; it ends at the first that raises
RECURSIVE UpdateRest(_, _, _, _, _)
UpdateRest(self, have_pycamb, kwargs, order, i) ==
    IF i > Len(order) THEN [self |-> self, raised |-> FALSE]
    ELSE LET key == order[i]
             val == kwargs[key]
         IN  IF key \in DOMAIN self.camb_options
             THEN IF self.camb_options[key] # val
                  THEN LET s1 == [self EXCEPT !.camb_options =
                                      [@ EXCEPT ![key] = val]]
                           s2 == IF key # "ThreadNum"
                                 THEN [s1 EXCEPT !.cache =
                                          DelProp(@, "_unnormalised_lnT")]
                                 ELSE s1
                       IN  UpdateRest(s2, have_pycamb, kwargs, order, i + 1)
                  ELSE UpdateRest(self, have_pycamb, kwargs, order, i + 1)
             ELSE IF key \notin DOMAIN self.attrs
                  THEN UpdateRest(self, have_pycamb, kwargs, order, i + 1)
                  ELSE IF Differs(key, self.attrs[key], val)
                       THEN IF Accepts(key, val, have_pycamb)
                            THEN UpdateRest(SetAttr(self, key, val), have_pycamb,
                                            kwargs, order, i + 1)
                            ELSE [self |-> self, raised |-> TRUE]
                       ELSE UpdateRest(self, have_pycamb, kwargs, order, i + 1)

\* a plausible slip: a changed sigma_8 recalculates everything
CosmoDeletes_Sigma8Full(c, true_cp) ==
    LET c1 == IF "n" \in true_cp THEN DelProp(c, "_unnormalised_lnP") ELSE c
    IN  IF {"sigma_8", "omegab", "omegac", "h", "H0", "omegab_h2", "omegac_h2"}
              \cap true_cp # {}
        THEN DelProp(c1, "_unnormalised_lnT")
        ELSE c1

\* a plausible slip: "elif" for the second of the two cheaper paths
CosmoDeletes_Elif(c, true_cp) ==
    LET c2 == IF "n" \in true_cp
              THEN DelProp(c, "_unnormalised_lnP")
              ELSE IF "sigma_8" \in true_cp
                   THEN DelProp(DelProp(c, "_lnP_cdm_0"), "_lnT_cdm")
                   ELSE c
    IN  IF {"omegab", "omegac", "h", "H0", "omegab_h2", "omegac_h2"}
              \cap true_cp # {}
        THEN DelProp(c2, "_unnormalised_lnT")
        ELSE c2

\* the deletes that follow a change of the cosmological parameters true_cp
CosmoDeletes(c, true_cp) ==
    LET c1 == IF "n" \in true_cp THEN DelProp(c, "_unnormalised_lnP") ELSE c
        c2 == IF "sigma_8" \in true_cp
              THEN DelProp(DelProp(c1, "_lnP_cdm_0"), "_lnT_cdm")
              ELSE c1
    IN  IF {"omegab", "omegac", "h", "H0", "omegab_h2", "omegac_h2"}
              \cap true_cp # {}
        THEN DelProp(c2, "_unnormalised_lnT")
        ELSE c2

\* the cosmological part of update(): the dictionary, the Cosmology object and
\* the deletes that follow
UpdateCosmo(self, cp) ==
    IF DOMAIN cp = {} THEN self
    ELSE LET true_cp == {k \in DOMAIN cp :
                            \/ k \notin DOMAIN self.cpdict
                            \/ /\ k \in DOMAIN self.cpdict
                               /\ cp[k] # self.cpdict[k]}
             d  == [k \in DOMAIN self.cpdict \cup true_cp |->
                       IF k \in true_cp THEN cp[k] ELSE self.cpdict[k]]
         IN  [self EXCEPT !.cpdict = d, !.cosmo = Cosmology(d),
                          !.cache = CosmoDeletes(self.cache, true_cp)]

\* the deletes at the end of update(); kwargs are the arguments left after
\* the cosmological ones were taken out
UpdateExtra(self, cp, kwargs) ==
    IF {"omegab", "omegac", "omegav"} \cap DOMAIN cp # {} /\ Less(0, self.attrs.z)
    THEN [self EXCEPT !.cache = DelProp(@, "growth")]
    ELSE IF "z" \in DOMAIN kwargs
         THEN IF kwargs["z"] = 0
              THEN [self EXCEPT !.cache = DelProp(@, "growth")]
              ELSE self
         ELSE self

\* update() with the arguments all: the object afterwards and whether the call raised; order is
\* the order in which the dictionary gives the other arguments
Update(self, have_pycamb, all, order) ==
    LET cp     == [k \in DOMAIN all \cap cp_names |-> all[k]]
        kwargs == [k \in DOMAIN all \ cp_names |-> all[k]]
        s1     == UpdateCosmo(self, cp)
        r      == UpdateRest(s1, have_pycamb, kwargs, order, 1)
    IN  IF r.raised THEN r
        ELSE [self |-> UpdateExtra(r.self, cp, kwargs), raised |-> FALSE]

(***************************************************************************)
(* The state machine.                                                      *)
(***************************************************************************)
\* the object; exc is the exception on its way to the caller of a read, devs
\* the number of evaluations of the derivatives the read made, log the
\* quantities whose getters ran to the end in the read, in that order
Self ==
    [cpdict |-> cpdict, cosmo |-> cosmo, camb_options |-> camb_options,
     attrs |-> attrs, cache |-> cache, exc |-> "", devs |-> 0, log |-> <<>>]

\* self._cpdict after a construction that names omegab, omegac and H0, and
\* after one that names omegab_h2, omegac_h2 and H0
CpDirect ==
    [sigma_8 |-> 80, n |-> 96, w |-> -100, omegav |-> 68, omegan |-> 0,
     H0 |-> 67, omegab |-> 4, omegac |-> 25]

CpH2 ==
    [sigma_8 |-> 80, n |-> 96, w |-> -100, omegav |-> 68, omegan |-> 0,
     H0 |-> 67, omegab_h2 |-> 22, omegac_h2 |-> 12]

\* the keys and values update() is called with
ArgKeys ==
    (DOMAIN cpdict \cap {"sigma_8", "n", "w", "omegav", "omegab", "omegab_h2", "H0"})
    \cup set_properties \cup {"AccuracyBoost", "ThreadNum"}

ArgDomain(k) ==
    IF k \in cp_names THEN CpDomain(k)
    ELSE IF k \in set_properties THEN AttrDomain(k)
    ELSE CambDomain(k)

\* the dictionaries with the keys K
RECURSIVE Dicts(_)
Dicts(K) ==
    IF K = {} THEN {<<>>}
    ELSE LET k == CHOOSE x \in K : TRUE
         IN  {Put(d, k, v) : d \in Dicts(K \ {k}), v \in ArgDomain(k)}

\* the sets of at most n of the keys S
RECURSIVE KeySets(_, _)
KeySets(S, n) ==
    IF n <= 0 THEN {{}}
    ELSE LET P == KeySets(S, n - 1)
         IN  P \cup {K \cup {k} : K \in P, k \in S}

\* the orders in which a dictionary gives the keys S
Orders(S) ==
    {o \in [1..Cardinality(S) -> S] : \A i, j \in DOMAIN o : o[i] = o[j] => i = j}

\* the parameters whose stored value differs between two objects
Changed(s, t) ==
    {k \in DOMAIN s.cpdict \cup DOMAIN t.cpdict :
        k \notin DOMAIN s.cpdict \/ k \notin DOMAIN t.cpdict
        \/ s.cpdict[k] # t.cpdict[k]}
    \cup {k \in DOMAIN s.attrs : s.attrs[k] # t.attrs[k]}
    \cup {k \in DOMAIN s.camb_options : s.camb_options[k] # t.camb_options[k]}

Become(s) ==
    /\ cpdict' = s.cpdict
    /\ cosmo' = s.cosmo
    /\ camb_options' = s.camb_options
    /\ attrs' = s.attrs
    /\ cache' = s.cache

Init ==
    /\ HAVE_PYCAMB \in BOOLEAN
    /\ cpdict \in {CpDirect, CpH2}
    /\ cosmo = Cosmology(cpdict)
    /\ camb_options =
           [Scalar_initial_condition |-> 1, scalar_amp |-> 1, lAccuracyBoost |-> 1,
            AccuracyBoost |-> 1, w_perturb |-> 0, transfer__k_per_logint |-> 11,
            transfer__kmax |-> 5, ThreadNum |-> 0]
    /\ \E z0 \in {0, 1} :
           attrs = [lnk_min |-> -60, lnk_max |-> -45, dlnk |-> 5, wdm_mass |-> None,
                    z |-> z0, transfer_fit |-> "EH"]
    /\ cache = <<>>
    /\ last = [op |-> "init", q |-> "", kw |-> <<>>, changed |-> {},
               raised |-> FALSE, error |-> ""]
    /\ nops = 0
    /\ \E o \in Outcomes :
           /\ crossing = o[1]
           /\ dev_fails = o[2]
           \* the outcomes in which _get_spec raises or retries depend on
           \* neither the installation nor the initial redshift: they are
           \* drawn for one of each
           /\ o # <<0, 0>> => ~HAVE_PYCAMB /\ attrs.z = 0
    /\ low_k_in = <<>>
    /\ low_k = <<>>

\* a read of a derived quantity
Read(q) ==
    /\ nops < MaxOps
    /\ LET s == Get(Self, q)
       IN  /\ Become(s)
           /\ last' = [op |-> "read", q |-> q, kw |-> <<>>, changed |-> {},
                       raised |-> s.exc # "", error |-> s.exc]
    /\ nops' = nops + 1
    /\ UNCHANGED <<HAVE_PYCAMB, crossing, dev_fails, low_k_in, low_k>>

\* a call of update()
UpdateCall ==
    \E K \in KeySets(ArgKeys, IF MaxOps - nops < MaxArgs
                               THEN MaxOps - nops ELSE MaxArgs) \ {{}} :
          /\ nops' = nops + Cardinality(K)
          /\ UNCHANGED <<HAVE_PYCAMB, crossing, dev_fails, low_k_in, low_k>>
          /\ \E all \in Dicts(K) : \E order \in Orders(K \ cp_names) :
                LET r == Update(Self, HAVE_PYCAMB, all, order)
                IN  /\ Become(r.self)
                    /\ last' = [op |-> "update", q |-> "", kw |-> all,
                                changed |-> Changed(Self, r.self),
                                raised |-> r.raised,
                                error |-> IF r.raised THEN "ValueError" ELSE ""]

\* the derived quantities a caller reads
Readable ==
    {"lnk", "transfer", "power", "delta_k", "growth", "nonlinear_delta_k",
     "nonlinear_power"}

Next ==
    \/ \E q \in Readable : Read(q)
    \/ UpdateCall

Spec == Init /\ [][Next]_vars

(***************************************************************************)
(* _check_low_k on its own: a table of at most MaxTable points, lnk with   *)
(* the spacing TableStep and lnT moving by one of TableSlopes from point   *)
(* to point, is given to the filter.                                       *)
(***************************************************************************)
\* the sequences of length n over S
RECURSIVE Seqs(_, _)
Seqs(S, n) ==
    IF n = 0 THEN {<<>>}
    ELSE {Append(q, x) : q \in Seqs(S, n - 1), x \in S}

\* the running sum of the steps d, from 0
RECURSIVE Sum(_, _)
Sum(d, i) == IF i = 0 THEN 0 ELSE Sum(d, i - 1) + d[i]

Tables ==
    UNION {{<<[i \in 1..n |-> (i - 1) * TableStep],
              [i \in 1..n |-> Sum(d, i - 1)]>> : d \in Seqs(TableSlopes, n - 1)}
           : n \in 1..MaxTable}

InitLowK ==
    /\ HAVE_PYCAMB = FALSE
    /\ cpdict = CpDirect
    /\ cosmo = Cosmology(cpdict)
    /\ camb_options = <<>>
    /\ attrs = <<>>
    /\ cache = <<>>
    /\ last = <<>>
    /\ nops = 0
    /\ crossing = 0
    /\ dev_fails = 0
    /\ low_k_in \in Tables
    /\ low_k = <<>>

CheckLowK ==
    /\ low_k = <<>>
    /\ low_k' = check_low_k(low_k_in[1], low_k_in[2])
    /\ UNCHANGED <<HAVE_PYCAMB, cpdict, cosmo, camb_options, attrs, cache, last,
                   nops, crossing, dev_fails, low_k_in>>

NextLowK == CheckLowK

SpecLowK == InitLowK /\ [][NextLowK]_vars

(***************************************************************************)
(* What a read returns, and what a freshly constructed Transfer with the   *)
(* same parameter values computes.                                         *)
(***************************************************************************)
\* the value of q that a read left, or the exception it raised
ValueOf(s, q) == IF s.exc # "" THEN <<s.exc>> ELSE s.cache[q]

ReadValue(self, q) == ValueOf(Get(self, q), q)

FreshValue(self, q) == ValueOf(Get([self EXCEPT !.cache = <<>>], q), q)

\* the last operation was update() with exactly the keys K
UpdateOf(l, K) == l.op = "update" /\ DOMAIN l.kw = K

(***************************************************************************)
(* C1.  After any sequence of update() calls and reads, a read of a        *)
(* derived quantity returns the value a freshly constructed Transfer with  *)
(* the current parameter values computes: no cached value is stale.        *)
(* The code does not satisfy this: C1_NoStaleRead is violated.             *)
(***************************************************************************)
C1_NoStaleRead ==
    \A q \in Readable : ReadValue(Self, q) = FreshValue(Self, q)

(***************************************************************************)
(* C2.  An update() removes from the cache exactly the quantities that     *)
(* depend on a parameter whose value changed (those whose value for the    *)
(* new parameters differs from their value for the old ones), and every    *)
(* other cached quantity stays cached with the same value.                 *)
(* The code does not satisfy this: C2_ExactInvalidation is violated.       *)
(***************************************************************************)
C2_Step ==
    (last'.op = "update" /\ ~last'.raised) =>
        /\ DOMAIN cache \ DOMAIN cache' =
               {q \in DOMAIN cache : FreshValue(Self', q) # FreshValue(Self, q)}
        /\ \A q \in DOMAIN cache \cap DOMAIN cache' : cache'[q] = cache[q]

C2_ExactInvalidation == [][C2_Step]_vars

(***************************************************************************)
(* C3.  An update() that changes only sigma_8 leaves lnk,                  *)
(* _unnormalised_lnT and _unnormalised_lnP cached with unchanged values;   *)
(* a call that names only sigma_8 removes nothing but the normalised       *)
(* quantities and what is derived from them.                               *)
(***************************************************************************)
NormalisedQuantities == Cascade("_lnP_cdm_0") \cup Cascade("_lnT_cdm")

C3_Step ==
    /\ (last'.op = "update" /\ last'.changed = {"sigma_8"}) =>
           \A q \in {"lnk", "_unnormalised_lnT", "_unnormalised_lnP"} :
               q \in DOMAIN cache => q \in DOMAIN cache' /\ cache'[q] = cache[q]
    /\ (UpdateOf(last', {"sigma_8"}) /\ last'.changed = {"sigma_8"}) =>
           /\ DOMAIN cache \ DOMAIN cache' = DOMAIN cache \cap NormalisedQuantities
           /\ \A q \in DOMAIN cache' : cache'[q] = cache[q]

C4_Step ==
    (last'.op = "update" /\ ~last'.raised
        /\ last'.changed \in {{"n"}, {"sigma_8"}}) =>
        \A q \in Readable : ReadValue(Self', q) = FreshValue(Self', q)

C4_IncrementalIsFull == [][C4_Step]_vars

(***************************************************************************)
(* C5.  An update() with several keyword arguments that returns leaves     *)
(* the object (parameter values, cosmology, cached quantities and their    *)
(* values) in the state that the same arguments leave when each is given   *)
(* to an update() call of its own, in every order of the calls.            *)
(***************************************************************************)
\* update() once per argument of kw, in the order given
RECURSIVE OneByOne(_, _, _, _, _)
OneByOne(self, have_pycamb, kw, order, i) ==
    IF i > Len(order) THEN [self |-> self, raised |-> FALSE]
    ELSE LET key == order[i]
             r   == Update(self, have_pycamb, [k \in {key} |-> kw[key]],
                           IF key \in cp_names THEN <<>> ELSE <<key>>)
         IN  IF r.raised THEN r
             ELSE OneByOne(r.self, have_pycamb, kw, order, i + 1)

C5_Step ==
    (last'.op = "update" /\ ~last'.raised
        /\ Cardinality(DOMAIN last'.kw) > 1) =>
        \A o \in Orders(DOMAIN last'.kw) :
            OneByOne(Self, HAVE_PYCAMB, last'.kw, o, 1)
                = [self |-> Self', raised |-> FALSE]

C5_BatchIsSequential == [][C5_Step]_vars

C5_Witness ==
    /\ last.op = "update"
    /\ ~last.raised
    /\ last.changed = {"n", "sigma_8"}
    /\ "_unnormalised_lnT" \in DOMAIN cache
    /\ "_unnormalised_lnP" \notin DOMAIN cache
    /\ "_lnT_cdm" \notin DOMAIN cache

(***************************************************************************)
(* C6.  Without pycamb, an update() that sets transfer_fit to "CAMB"       *)
(* raises and keeps the previous transfer_fit; when it is the only         *)
(* argument, nothing of the object changes, so every cached quantity       *)
(* stays cached.  The error comes when the value is set: in no reachable   *)
(* state is transfer_fit "CAMB" without pycamb, so no read meets it.       *)
(***************************************************************************)
C6_Step ==
    (/\ last'.op = "update"
     /\ ~HAVE_PYCAMB
     /\ "transfer_fit" \in DOMAIN last'.kw
     /\ last'.kw["transfer_fit"] = "CAMB") =>
        /\ last'.raised
        /\ attrs'.transfer_fit = attrs.transfer_fit
        /\ DOMAIN last'.kw = {"transfer_fit"} => Self' = Self

C6_CambNeedsSolver ==
    /\ [](attrs.transfer_fit = "CAMB" => HAVE_PYCAMB)
    /\ [][C6_Step]_vars

C6_Witness ==
    /\ UpdateOf(last, {"transfer_fit"})
    /\ last.kw["transfer_fit"] = "CAMB"
    /\ ~HAVE_PYCAMB
    /\ last.raised
    /\ {"_unnormalised_lnT", "power"} \subseteq DOMAIN cache

(***************************************************************************)
(* C7.  An update() that raises for one of its arguments leaves every      *)
(* parameter value, the cosmology and every cached quantity as they were   *)
(* before the call, also when the call carries other, valid arguments.     *)
(* The code does not satisfy this: the cosmological arguments and the      *)
(* arguments before the offending one are applied before the error.        *)
(* C7_RaisingUpdateChangesNothing is violated.                             *)
(***************************************************************************)
C7_Step == (last'.op = "update" /\ last'.raised) => Self' = Self

C7_RaisingUpdateChangesNothing == [][C7_Step]_vars

(***************************************************************************)
(* C8.  In every reachable state the stored z satisfies z >= 0 and the     *)
(* stored wdm_mass is None or satisfies wdm_mass > 0.                      *)
(* The code does not satisfy this: the setters raise when "val < 0"        *)
(* (z) or "val <= 0" (wdm_mass) is True, which it is not for nan.          *)
(* C8_ValidatedScalars is violated.                                        *)
(***************************************************************************)
C8_ValidatedScalars ==
    /\ LessEq(0, attrs.z)
    /\ attrs.wdm_mass = None \/ Less(0, attrs.wdm_mass)

(***************************************************************************)
(* C9.  Whenever the stored z is 0, a read of growth returns exactly 1.0,  *)
(* the value that is no result of tools.growth_factor, whatever the        *)
(* cosmology and whatever updates and reads came before.                   *)
(***************************************************************************)
C9_GrowthOneAtZ0 == attrs.z = 0 => ReadValue(Self, "growth") = <<"1.0">>

C9_Witness ==
    /\ last.op = "update"
    /\ "z" \in last.changed
    /\ attrs.z = 0
    /\ "_lnP_0" \in DOMAIN cache
    /\ "growth" \notin DOMAIN cache

(***************************************************************************)
(* C10.  In what a read of nonlinear_power leaves cached (the values       *)
(* already cached, where there are such), at every grid point with         *)
(* exp(lnk) <= 0.005 nonlinear_power equals power and nonlinear_delta_k    *)
(* equals delta_k, and the points with exp(lnk) > 0.005 are those that     *)
(* hold the logarithm of a Halofit value.                                  *)
(***************************************************************************)
C10_At(s) ==
    s.exc = "" =>
    /\ DOMAIN s.cache["nonlinear_power"] = DOMAIN s.cache["lnk"]
    /\ DOMAIN s.cache["nonlinear_delta_k"] = DOMAIN s.cache["lnk"]
    /\ \A i \in DOMAIN s.cache["lnk"] :
           IF s.cache["lnk"][i] > LnKCut
           THEN s.cache["nonlinear_delta_k"][i].t[1] = "log"
           ELSE /\ s.cache["nonlinear_delta_k"][i].t[1] # "log"
                /\ s.cache["nonlinear_power"][i] = s.cache["power"][i]
                /\ s.cache["nonlinear_delta_k"][i] = s.cache["delta_k"][i]

C11_At(s, q) == s.exc = "" /\ Len(s.cache[q]) = Len(lnk(s).cache["lnk"])

C11_OneEntryPerGridPoint ==
    (attrs.lnk_min < attrs.lnk_max /\ attrs.dlnk > 0) =>
        /\ C11_At(Get(Self, "transfer"), "transfer")
        /\ C11_At(Get(Self, "power"), "power")

(***************************************************************************)
(* C12.  _check_low_k returns the points of the table from the index       *)
(* start to the end, where start is the first index whose slope magnitude  *)
(* is below 0.01, or 0 when there is none; no point at or after start is   *)
(* discarded.                                                              *)
(* The code does not satisfy this: the slices end before the last point.   *)
(* C12_KeepsFromStart is violated.                                         *)
(***************************************************************************)
C12_Start(lnk_, lnT) ==
    IF \E i \in 0..(Len(lnk_) - 2) : slope_below(lnk_, lnT, i)
    THEN CHOOSE i \in 0..(Len(lnk_) - 2) :
             /\ slope_below(lnk_, lnT, i)
             /\ \A j \in 0..(i - 1) : ~slope_below(lnk_, lnT, j)
    ELSE 0

C12_KeepsFromStart ==
    low_k # <<>> =>
        \A c \in 1..2 :
            low_k[c] = SubSeq(low_k_in[c], C12_Start(low_k_in[1], low_k_in[2]) + 1,
                              Len(low_k_in[c]))

(***************************************************************************)
(* C13.  As stated: for a table whose first 5 points have slopes below     *)
(* 0.01 and whose other points decline with slopes of at least 0.01, the   *)
(* filter removes exactly the first 5 points and keeps all others.         *)
(* C13_RemovesFirstFive is violated.  What holds is                        *)
(* C13_KeepsFirstFive: the first slope qualifies, start is 0, and the      *)
(* output begins with the first 5 points of the table.                     *)
(***************************************************************************)
C13_TurnUpTable ==
    /\ Len(low_k_in[1]) > 5
    /\ \A i \in 0..3 : slope_below(low_k_in[1], low_k_in[2], i)
    /\ \A i \in 4..(Len(low_k_in[1]) - 2) :
           /\ ~slope_below(low_k_in[1], low_k_in[2], i)
           /\ low_k_in[2][i + 2] < low_k_in[2][i + 1]

C13_RemovesFirstFive ==
    (low_k # <<>> /\ C13_TurnUpTable) =>
        \A c \in 1..2 : low_k[c] = SubSeq(low_k_in[c], 6, Len(low_k_in[c]))

C13_KeepsFirstFive ==
    (low_k # <<>> /\ C13_TurnUpTable) =>
        \A c \in 1..2 :
            /\ Len(low_k[c]) >= 5
            /\ \A i \in 1..5 : low_k[c][i] = low_k_in[c][i]

C13_Witness == low_k # <<>> /\ C13_TurnUpTable /\ Len(low_k_in[1]) = MaxTable

(***************************************************************************)
(* C14.  In the search of _get_spec (sigma_8 outside (0.6, 1.0)), when     *)
(* lnsig1 is below 0 at none of the radii 1e-4 ... 1e3, the read of the    *)
(* non-linear spectrum that computes it raises, and no non-linear value    *)
(* is cached.                                                              *)
(* The code does not satisfy this: the loop ends without a break and the   *)
(* spline is built from lnsig1 of the last radius.                         *)
(* C14_NoCrossingRaises is violated.                                       *)
(***************************************************************************)
NonlinearRead(l) == l.op = "read" /\ l.q \in {"nonlinear_delta_k", "nonlinear_power"}

C14_Step ==
    (/\ NonlinearRead(last')
     /\ "nonlinear_delta_k" \notin DOMAIN cache
     /\ ~usual_range(Self)
     /\ crossing = 0) =>
        /\ last'.raised
        /\ "nonlinear_delta_k" \notin DOMAIN cache'

C14_NoCrossingRaises == [][C14_Step]_vars

(***************************************************************************)
(* C15.  When a read of nonlinear_delta_k or nonlinear_power raises, the   *)
(* caller gets the error, neither of the two is cached afterwards, and     *)
(* the cache is what a read of lnk and of delta_k in the same state would  *)
(* have left: the linear quantities hold the values they have without the  *)
(* request for the non-linear spectrum.                                    *)
(***************************************************************************)
C15_Step ==
    (NonlinearRead(last') /\ last'.raised) =>
        /\ last'.error # ""
        /\ DOMAIN cache' \cap {"nonlinear_delta_k", "nonlinear_power"} = {}
        /\ cache' = delta_k(lnk(Self)).cache
        /\ <<cpdict', cosmo', camb_options', attrs'>>
               = <<cpdict, cosmo, camb_options, attrs>>

C15_FailureKeepsLinearCaches == [][C15_Step]_vars

C15_Witness ==
    /\ NonlinearRead(last)
    /\ last.raised
    /\ last.error = "UnboundLocalError"
    /\ {"lnk", "power", "delta_k"} \subseteq DOMAIN cache

(***************************************************************************)
(* C16.  lnk, cached or computed now, is the grid lnk_min, lnk_min + dlnk, *)
(* ... of all points strictly below lnk_max for the current lnk_min,       *)
(* lnk_max and dlnk: every point is below lnk_max, the point after the     *)
(* last one is not, consecutive points differ by dlnk > 0.  An update      *)
(* that changes one of the three leaves neither lnk nor a quantity         *)
(* computed on it in the cache.                                            *)
(***************************************************************************)
C16_Grid(a, lo, hi, d) ==
    /\ \A i \in DOMAIN a : a[i] = lo + (i - 1) * d /\ a[i] < hi
    /\ lo + Len(a) * d >= hi
    /\ \A i \in 1..(Len(a) - 1) : a[i + 1] > a[i] /\ a[i + 1] - a[i] = d

C16_At(s) ==
    /\ s.exc = ""
    /\ C16_Grid(s.cache["lnk"], s.attrs.lnk_min, s.attrs.lnk_max, s.attrs.dlnk)

C16_Step ==
    (last'.op = "update" /\ last'.changed \cap {"lnk_min", "lnk_max", "dlnk"} # {}) =>
        DOMAIN cache' \cap Cascade("lnk") = {}

OnlyChanged(l, k) == l.op = "update" /\ ~l.raised /\ l.changed = {k}

\* the growth factor of the object s at its redshift
GrowthAt(s) ==
    IF s.attrs.z # NaN /\ s.attrs.z > 0
    THEN growth_factor(s.attrs.z, s.cosmo)
    ELSE <<"1.0">>

C17_Step ==
    OnlyChanged(last', "z") =>
        /\ cache' = Without(cache, {"growth", "power", "delta_k",
                                    "nonlinear_delta_k", "nonlinear_power"})
        /\ "_lnP_0" \in DOMAIN cache =>
               ReadValue(Self', "power") =
                   [i \in DOMAIN cache["_lnP_0"] |->
                       Pt(<<"2*log(growth)+lnP_0", GrowthAt(Self'),
                            cache["_lnP_0"][i]>>)]

C17_RedshiftKeepsZ0Power == [][C17_Step]_vars

C17_Witness ==
    /\ OnlyChanged(last, "z")
    /\ attrs.z = 1
    /\ {"lnk", "_unnormalised_lnT", "_unnormalised_lnP", "_lnP_cdm_0", "_lnP_0"}
           \subseteq DOMAIN cache
    /\ DOMAIN cache \cap {"growth", "power", "delta_k"} = {}

(***************************************************************************)
(* C18.  An update that changes only wdm_mass removes exactly _lnP_0,      *)
(* transfer, power, delta_k, nonlinear_delta_k and nonlinear_power from    *)
(* the cache and leaves every other cached quantity, growth among them,    *)
(* with its value; with wdm_mass None a read of _lnP_0 gives the value of  *)
(* _lnP_cdm_0.                                                             *)
(* The code does not satisfy the first part: the deletes at the end of     *)
(* update() remove growth for arguments that change nothing.               *)
(* C18_WdmKeepsGrowth is violated.                                         *)
(***************************************************************************)
C18_Step ==
    OnlyChanged(last', "wdm_mass") =>
        cache' = Without(cache, {"_lnP_0", "transfer", "power", "delta_k",
                                 "nonlinear_delta_k", "nonlinear_power"})

C18_CdmAt(s) == s.exc = "" /\ s.cache["_lnP_0"] = s.cache["_lnP_cdm_0"]

C18_WdmKeepsGrowth ==
    /\ [](attrs.wdm_mass = None => C18_CdmAt(Get(Self, "_lnP_0")))
    /\ [][C18_Step]_vars

(***************************************************************************)
(* C19.  A non-raising update that changes one of omegab, omegac, omegav,  *)
(* omegab_h2, omegac_h2, h, H0 while z > 0 leaves no growth in the cache.  *)
(* The code does not satisfy this: the deletes at the end of update()      *)
(* look for omegab, omegac and omegav only.                                *)
(* C19_CosmologyChangeDropsGrowth is violated.                             *)
(***************************************************************************)
GrowthParameters ==
    {"omegab", "omegac", "omegav", "omegab_h2", "omegac_h2", "h", "H0"}

C19_Step ==
    (/\ last'.op = "update"
     /\ ~last'.raised
     /\ last'.changed \cap GrowthParameters # {}
     /\ Less(0, attrs.z)
     /\ Less(0, attrs'.z)) =>
        "growth" \notin DOMAIN cache'

C19_CosmologyChangeDropsGrowth == [][C19_Step]_vars

(***************************************************************************)
(* C20.  An update that sets transfer_fit to a name that is neither a      *)
(* known fit nor a readable file raises the error the setter raises for    *)
(* an unusable selection (ValueError) and changes nothing; no read of      *)
(* transfer or of _unnormalised_lnT succeeds under such a selection.       *)
(* The code does not satisfy the first part: the setter accepts the name   *)
(* and the failure is the IOError of np.genfromtxt at the next read.       *)
(* C20_UnknownFitIsRejected is violated.                                   *)
(***************************************************************************)
UnknownFit(f) == f \notin fits /\ f \notin ReadableFiles

C20_Step ==
    (/\ last'.op = "update"
     /\ "transfer_fit" \in DOMAIN last'.kw
     /\ UnknownFit(last'.kw["transfer_fit"])) =>
        /\ last'.raised
        /\ last'.error = "ValueError"
        /\ Self' = Self

C20_NoTransfer ==
    UnknownFit(attrs.transfer_fit) =>
        \A q \in {"_unnormalised_lnT", "transfer", "power"} : Get(Self, q).exc # ""

C20_UnknownFitIsRejected ==
    /\ []C20_NoTransfer
    /\ [][C20_Step]_vars

(***************************************************************************)
(* C21.  A read that computes nonlinear_delta_k and gets as far as the     *)
(* derivatives in _get_spec evaluates them once when the evaluation        *)
(* succeeds and exactly twice when the first evaluation raises, never      *)
(* more; when the second evaluation raises too, the read raises that       *)
(* error and no non-linear quantity is cached, otherwise the read          *)
(* succeeds.                                                               *)
(***************************************************************************)
\* the read made by the step computes nonlinear_delta_k and reaches the
\* derivatives
C21_ReachesDerivatives ==
    /\ NonlinearRead(last')
    /\ "nonlinear_delta_k" \notin DOMAIN cache
    /\ delta_k(lnk(Self)).exc = ""
    /\ ~get_spec_raises(Self)

C21_Step ==
    C21_ReachesDerivatives =>
        /\ Get(Self, last'.q).devs = (IF derivatives_fails(1) THEN 2 ELSE 1)
        /\ last'.raised <=> (derivatives_fails(1) /\ derivatives_fails(2))
        /\ last'.raised =>
               /\ last'.error = "ValueError"
               /\ DOMAIN cache' \cap {"nonlinear_delta_k", "nonlinear_power"} = {}
        /\ ~last'.raised => "nonlinear_delta_k" \in DOMAIN cache'

C21_OneRetry == [][C21_Step]_vars

\* both evaluations raised and the read of a non-linear quantity raised
C21_Witness ==
    /\ NonlinearRead(last)
    /\ last.raised
    /\ last.error = "ValueError"
    /\ dev_fails = 2
    /\ "delta_k" \in DOMAIN cache

(***************************************************************************)
(* C22.  An update called with solver options only: when ThreadNum is the  *)
(* only option that changes, the cache is left as it is; when another      *)
(* option changes, _unnormalised_lnT and what is derived from it are       *)
(* removed if transfer_fit is "CAMB", and the cache is left as it is for   *)
(* every other fit.                                                        *)
(* The code does not satisfy this: it deletes _unnormalised_lnT whatever   *)
(* the fit is.  C22_SolverOptionsOnlyForCamb is violated.                  *)
(***************************************************************************)
C22_Step ==
    (/\ last'.op = "update"
     /\ ~last'.raised
     /\ DOMAIN last'.kw \subseteq DOMAIN camb_options
     /\ last'.changed # {}) =>
        IF last'.changed = {"ThreadNum"} \/ attrs.transfer_fit # "CAMB"
        THEN cache' = cache
        ELSE cache' = DelProp(cache, "_unnormalised_lnT")

C22_SolverOptionsOnlyForCamb == [][C22_Step]_vars

(***************************************************************************)
(* C23.  A read of a cached quantity computes nothing and leaves the cache *)
(* as it is.  A read of a quantity that is not cached computes only        *)
(* quantities that were not cached, each of them once, keeps every entry   *)
(* the cache had, adds what it computed and, unless it raises, ends with   *)
(* the quantity itself computed and stored.  A stored quantity is          *)
(* therefore not computed again before an update removes it.               *)
(***************************************************************************)
Range(f) == {f[i] : i \in DOMAIN f}

C23_At(s, q) ==
    /\ q \in DOMAIN cache => s.log = <<>>
    /\ \A i, j \in DOMAIN s.log : s.log[i] = s.log[j] => i = j
    /\ Range(s.log) \cap DOMAIN cache = {}
    /\ DOMAIN s.cache = DOMAIN cache \cup Range(s.log)
    /\ \A x \in DOMAIN cache : s.cache[x] = cache[x]
    /\ (s.exc = "" /\ q \notin DOMAIN cache) =>
           Len(s.log) > 0 /\ s.log[Len(s.log)] = q

C23_Step ==
    last'.op = "read" =>
        LET s == Get(Self, last'.q)
        IN  C23_At(s, last'.q) /\ cache' = s.cache

C23_ComputedAtMostOnce == [][C23_Step]_vars

\* power was read while it was cached: nonlinear_power, which is computed
\* from it, was read before
C23_Witness ==
    /\ last.op = "read"
    /\ last.q = "power"
    /\ ~last.raised
    /\ "nonlinear_power" \in DOMAIN cache

(***************************************************************************)
(* C24.  In every reachable state each cached quantity has all the         *)
(* quantities its method reads in the cache as well.                       *)
(***************************************************************************)
C24_CacheClosed == \A q \in DOMAIN cache : depends(q) \subseteq DOMAIN cache

\* an update deleted growth and its dependents from a cache that held power
C24_Witness ==
    /\ last.op = "update"
    /\ "z" \in last.changed
    /\ {"lnk", "_unnormalised_lnT", "_lnP_0"} \subseteq DOMAIN cache
    /\ DOMAIN cache \cap {"growth", "power"} = {}

(***************************************************************************)
(* C25.  An update whose arguments all equal the current values of the     *)
(* parameters they name removes nothing from the cache.                    *)
(* The code does not satisfy this: the deletes at the end of update()      *)
(* look at the names of the arguments, not at a change of value.           *)
(* C25_SameValuesKeepCache is violated.                                    *)
(***************************************************************************)
\* the current value of the parameter k
Current(k) ==
    IF k \in DOMAIN cpdict THEN cpdict[k]
    ELSE IF k \in DOMAIN attrs THEN attrs[k]
    ELSE camb_options[k]

C25_Step ==
    (/\ last'.op = "update"
     /\ \A k \in DOMAIN last'.kw : last'.kw[k] = Current(k)) =>
        cache' = cache

C25_SameValuesKeepCache == [][C25_Step]_vars

(***************************************************************************)
(* C26.  No quantity is among the quantities reached from it along the     *)
(* children the decorators name, and none among those reached along the    *)
(* quantities its method reads; what a deleter removes is the quantity     *)
(* and the quantities reached from it, a finite set.  Every read computes  *)
(* no quantity twice and only the quantity read and quantities reached     *)
(* from it along the reads of the methods.                                 *)
(***************************************************************************)
\* the quantities reached from those of S in at most n steps of the graph g
RECURSIVE Reached(_, _, _)
Reached(g(_), S, n) ==
    IF n = 0 THEN S
    ELSE Reached(g, S \cup UNION {g(c) : c \in S}, n - 1)

Below(q) == Reached(children, children(q), Cardinality(Quantities))

Needs(q) == Reached(depends, depends(q), Cardinality(Quantities))

C26_Acyclic ==
    /\ \A q \in Quantities : q \notin Below(q) /\ q \notin Needs(q)
    /\ \A k \in set_properties : set_children(k) \subseteq Quantities
    /\ \A q \in Quantities : Cascade(q) = {q} \cup Below(q)

C26_Step ==
    last'.op = "read" =>
        LET s == Get(Self, last'.q)
        IN  /\ Cardinality(Range(s.log)) = Len(s.log)
            /\ Range(s.log) \subseteq {last'.q} \cup Needs(last'.q)

C26_AcyclicAndTerminating ==
    /\ []C26_Acyclic
    /\ [][C26_Step]_vars

\* a read of nonlinear_power computed the whole chain below it
C26_Witness ==
    /\ last.op = "read"
    /\ last.q = "nonlinear_power"
    /\ ~last.raised
    /\ DOMAIN cache = {"nonlinear_power"} \cup Needs("nonlinear_power")

====
